---- MODULE Spec2Model ----
(***************************************************************************)
(* Model of the solana-twitter Anchor program                              *)
(* (programs/solana-twitter/src/lib.rs).                                   *)
(*                                                                         *)
(* One instruction, send_tweet, whose accounts struct SendTweet carries an *)
(* `init` constraint on the tweet account.  An instruction runs in two     *)
(* steps: the account constraints (Invoke), then the handler body          *)
(* (send_tweet).  The handler works on the account created by `init`; the  *)
(* account reaches the ledger only when the handler returns Ok, and is     *)
(* discarded when it returns Err.                                          *)
(*                                                                         *)
(* A String is the sequence of its characters (Unicode scalar values);     *)
(* chars().count() is the length of that sequence and the byte length is   *)
(* the sum of the UTF-8 widths of the characters.                          *)
(***************************************************************************)
EXTENDS Integers, Sequences, FiniteSets, TLC

VARIABLES ledger, pc, tx, probe

vars == <<ledger, pc, tx, probe>>

(* ------------------------------ bounds --------------------------------- *)

\* Number of account addresses a transaction may name as the tweet account.
NumAccounts == 2

\* Input lengths range over the limit .. limit + Over.
Over == 1

(* --------------------------- program constants ------------------------- *)

DISCRIMINATOR_LENGTH == 8
PUBKEY_LENGTH == 32
TIMESTAMP_LENGTH == 8
STRING_LENGTH_PREFIX == 4
MAX_TOPIC_LENGTH_BYTES == 50 * 4
MAX_TOPIC_LENGTH_CHARS == 50
MAX_CONTENT_LENGTH_BYTES == 280 * 4
MAX_CONTENT_LENGTH_CHARS == 280

Tweet_LEN_NoPrefix ==
    DISCRIMINATOR_LENGTH + PUBKEY_LENGTH + TIMESTAMP_LENGTH
        + MAX_TOPIC_LENGTH_BYTES + MAX_CONTENT_LENGTH_BYTES

Tweet_LEN ==
    DISCRIMINATOR_LENGTH
        + PUBKEY_LENGTH
        + TIMESTAMP_LENGTH
        + STRING_LENGTH_PREFIX + MAX_TOPIC_LENGTH_BYTES
        + STRING_LENGTH_PREFIX + MAX_CONTENT_LENGTH_BYTES

(* ------------------------------ strings -------------------------------- *)

\* 'a' (U+0061, one byte in UTF-8) and U+1F600 (four bytes in UTF-8).
Alphabet == {97, 128512}

Utf8Len(c) ==
    IF c < 128 THEN 1 ELSE IF c < 2048 THEN 2 ELSE IF c < 65536 THEN 3 ELSE 4

Rep(c, n) == [i \in 1..n |-> c]

\* chars().count()
CharCount(s) == Len(s)

\* String::len(): the number of bytes of the UTF-8 encoding, the sum of the
\* widths of the characters s[lo] .. s[hi] (summed by halves)
RECURSIVE ByteLenRange(_, _, _)
ByteLenRange(s, lo, hi) ==
    IF lo > hi THEN 0
    ELSE IF lo = hi THEN Utf8Len(s[lo])
    ELSE LET mid == (lo + hi) \div 2
         IN  ByteLenRange(s, lo, mid) + ByteLenRange(s, mid + 1, hi)

ByteLen(s) == ByteLenRange(s, 1, Len(s))

\* Borsh size of a Tweet account holding topic t and content c
SerializedSize(t, c) ==
    DISCRIMINATOR_LENGTH + PUBKEY_LENGTH + TIMESTAMP_LENGTH
        + STRING_LENGTH_PREFIX + ByteLen(t)
        + STRING_LENGTH_PREFIX + ByteLen(c)

(* ------------------------------ inputs --------------------------------- *)

Handles == 1..NumAccounts

Authors == {"alice", "bob"}

\* Pubkey::default(), the author field of a freshly allocated account
DefaultKey == "default"

TopicLens == MAX_TOPIC_LENGTH_CHARS .. (MAX_TOPIC_LENGTH_CHARS + Over)

ContentLens == MAX_CONTENT_LENGTH_CHARS .. (MAX_CONTENT_LENGTH_CHARS + Over)

\* The instruction arguments: a topic and a content written in one character.
Tweets ==
    {[topic |-> Rep(c, n), content |-> Rep(c, m)] :
        c \in Alphabet, n \in TopicLens, m \in ContentLens}

Topics ==
    {Rep(c, n) : c \in Alphabet, n \in TopicLens}

Contents ==
    {Rep(c, n) : c \in Alphabet, n \in ContentLens}

\* Values of Clock::get(): Ok(clock) with clock.unix_timestamp = r.ts
ClockGetFallible ==
    {[ok |-> TRUE, ts |-> 1700000001], [ok |-> TRUE, ts |-> 1700000002],
     [ok |-> FALSE, ts |-> 0]}

ClockGet ==
    {[ok |-> TRUE, ts |-> 1700000001], [ok |-> TRUE, ts |-> 1700000002]}

(* ------------------------------ accounts ------------------------------- *)

NoAccount == [exists |-> FALSE, space |-> 0, author |-> DefaultKey,
              timestamp |-> 0, topic |-> <<>>, content |-> <<>>]

\* #[account(init, payer = author, space = Tweet::LEN)]: a zeroed account
InitAccount == [exists |-> TRUE, space |-> Tweet_LEN, author |-> DefaultKey,
                timestamp |-> 0, topic |-> <<>>, content |-> <<>>]

NoTx == [tweet |-> 0, author |-> DefaultKey, topic |-> <<>>, content |-> <<>>,
         acct |-> NoAccount, entered |-> FALSE, clock |-> 0,
         result |-> "None"]

(* ------------------------------ handler -------------------------------- *)

ValidateStrict(topic, content) ==
    IF CharCount(topic) >= MAX_TOPIC_LENGTH_CHARS THEN "TopicTooLong"
    ELSE IF CharCount(content) >= MAX_CONTENT_LENGTH_CHARS THEN "ContentTooLong"
    ELSE "Ok"

ValidateContentFirst(topic, content) ==
    IF CharCount(content) > MAX_CONTENT_LENGTH_CHARS THEN "ContentTooLong"
    ELSE IF CharCount(topic) > MAX_TOPIC_LENGTH_CHARS THEN "TopicTooLong"
    ELSE "Ok"

ValidateTopicOnly(topic, content) ==
    IF CharCount(topic) > MAX_TOPIC_LENGTH_CHARS THEN "TopicTooLong"
    ELSE "Ok"

ValidateByteLimits(topic, content) ==
    IF CharCount(topic) > MAX_TOPIC_LENGTH_BYTES THEN "TopicTooLong"
    ELSE IF CharCount(content) > MAX_CONTENT_LENGTH_BYTES THEN "ContentTooLong"
    ELSE "Ok"

ValidateBytes(topic, content) ==
    IF ByteLen(topic) > MAX_TOPIC_LENGTH_CHARS THEN "TopicTooLong"
    ELSE IF ByteLen(content) > MAX_CONTENT_LENGTH_CHARS THEN "ContentTooLong"
    ELSE "Ok"

\* lib.rs 24-29: the two length checks, topic first
Validate(topic, content) ==
    IF CharCount(topic) > MAX_TOPIC_LENGTH_CHARS THEN "TopicTooLong"
    ELSE IF CharCount(content) > MAX_CONTENT_LENGTH_CHARS THEN "ContentTooLong"
    ELSE "Ok"

PopulateSwapped(acct, author, ts, topic, content) ==
    [acct EXCEPT !.author = author, !.timestamp = ts,
                 !.topic = content, !.content = topic]

\* lib.rs 31-34: the four field assignments
Populate(acct, author, ts, topic, content) ==
    [acct EXCEPT !.author = author, !.timestamp = ts,
                 !.topic = topic, !.content = content]

(* ------------------------------ actions -------------------------------- *)

Init ==
    /\ ledger = [h \in Handles |-> NoAccount]
    /\ pc = "idle"
    /\ tx = NoTx
    /\ probe = <<>>

Begin(h, a, t, c, acct, res) ==
    /\ pc = "idle"
    /\ pc' = IF res = "Pending" THEN "accounts" ELSE "done"
    /\ tx' = [tweet |-> h, author |-> a, topic |-> t, content |-> c,
              acct |-> acct, entered |-> FALSE, clock |-> 0, result |-> res]

\* An `init` that behaves as init_if_needed: an existing account is reused.
InvokeReinit(h, a, t, c) ==
    /\ Begin(h, a, t, c, InitAccount, "Pending")
    /\ UNCHANGED <<ledger, probe>>

\* An `init` that rejects a tweet whose author, topic and content are taken.
InvokeDedup(h, a, t, c) ==
    /\ IF ledger[h].exists
          \/ \E g \in Handles : /\ ledger[g].exists
                                /\ ledger[g].author = a
                                /\ ledger[g].topic = t
                                /\ ledger[g].content = c
       THEN Begin(h, a, t, c, NoAccount, "AccountInUse")
       ELSE Begin(h, a, t, c, InitAccount, "Pending")
    /\ UNCHANGED <<ledger, probe>>

\* An `init` whose freshly allocated account is visible before the handler ran.
InvokeEager(h, a, t, c) ==
    /\ IF ledger[h].exists
       THEN /\ Begin(h, a, t, c, NoAccount, "AccountInUse")
            /\ UNCHANGED ledger
       ELSE /\ Begin(h, a, t, c, InitAccount, "Pending")
            /\ ledger' = [ledger EXCEPT ![h] = InitAccount]
    /\ UNCHANGED probe

\* lib.rs 41-49: the SendTweet account constraints.  `init` creates the tweet
\* account with Tweet::LEN bytes; it fails when the address is already in use,
\* and then the handler is not entered.
Invoke(h, a, t, c) ==
    /\ IF ledger[h].exists
       THEN Begin(h, a, t, c, NoAccount, "AccountInUse")
       ELSE Begin(h, a, t, c, InitAccount, "Pending")
    /\ UNCHANGED <<ledger, probe>>

\* lib.rs 19-37: the handler body.  Clock::get().unwrap() panics on Err; an Err
\* or a panic discards the account, Ok commits it.
send_tweet ==
    /\ pc = "accounts"
    /\ \E clock \in ClockGet :
          LET res == IF ~clock.ok THEN "Panic"
                     ELSE Validate(tx.topic, tx.content)
              tweet == IF res = "Ok"
                       THEN Populate(tx.acct, tx.author, clock.ts,
                                     tx.topic, tx.content)
                       ELSE NoAccount
          IN  /\ tx' = [tx EXCEPT !.entered = TRUE, !.clock = clock.ts,
                                  !.result = res, !.acct = tweet]
              /\ ledger' = IF res = "Ok"
                           THEN [ledger EXCEPT ![tx.tweet] = tweet]
                           ELSE ledger
    /\ pc' = "done"
    /\ UNCHANGED probe

\* lib.rs 19, 36: the Result<()> is handed back and the instruction is over.
Return ==
    /\ pc = "done"
    /\ pc' = "idle"
    /\ tx' = NoTx
    /\ UNCHANGED <<ledger, probe>>

InvokeAny == \E h \in Handles, a \in Authors, w \in Tweets :
                 Invoke(h, a, w.topic, w.content)

Next == InvokeAny \/ send_tweet \/ Return

Spec == Init /\ [][Next]_vars

\* The validation applied to two inputs, side by side.
ValidatePair ==
    /\ \E t1 \in Topics, c1 \in Contents, t2 \in Topics, c2 \in Contents :
          probe' = <<[topic |-> t1, content |-> c1, result |-> Validate(t1, c1)],
                     [topic |-> t2, content |-> c2, result |-> Validate(t2, c2)]>>
    /\ UNCHANGED <<ledger, pc, tx>>

SpecValidate == Init /\ [][ValidatePair]_vars

(* ------------------------------ properties ----------------------------- *)

Finished == pc = "done" /\ tx.entered

Existing == {h \in Handles : ledger[h].exists}

\* C1: when the handler ran on a topic of at most 50 characters and a content
\* of at most 280 characters (50 and 280 included), it returned Ok and the
\* record it created holds exactly the topic and the content it was given.
C1_ValidAccepted ==
    (Finished /\ CharCount(tx.topic) <= 50 /\ CharCount(tx.content) <= 280)
        => /\ tx.result = "Ok"
           /\ ledger[tx.tweet].exists
           /\ ledger[tx.tweet].topic = tx.topic
           /\ ledger[tx.tweet].content = tx.content

C1_Witness ==
    /\ Finished
    /\ tx.result = "Ok"
    /\ CharCount(tx.topic) = 50
    /\ CharCount(tx.content) = 280
    /\ ledger[tx.tweet].topic = tx.topic

\* C2: when the handler ran on a topic of more than 50 characters, it returned
\* TopicTooLong and no record exists at the tweet address, whatever the
\* content is, also when the content has more than 280 characters.
C2_TopicTooLong ==
    (Finished /\ CharCount(tx.topic) > 50)
        => /\ tx.result = "TopicTooLong"
           /\ ~ledger[tx.tweet].exists

C2_Witness ==
    /\ Finished
    /\ CharCount(tx.topic) > 50
    /\ CharCount(tx.content) > 280
    /\ tx.result = "TopicTooLong"

\* C3: when the handler ran on a topic of at most 50 characters and a content
\* of more than 280 characters, it returned ContentTooLong and no record
\* exists at the tweet address.
C3_ContentTooLong ==
    (Finished /\ CharCount(tx.topic) <= 50 /\ CharCount(tx.content) > 280)
        => /\ tx.result = "ContentTooLong"
           /\ ~ledger[tx.tweet].exists

C3_Witness ==
    /\ Finished
    /\ CharCount(tx.topic) = 50
    /\ CharCount(tx.content) = 281
    /\ tx.result = "ContentTooLong"

\* C4, as stated: the storage of every created record is exactly 1384 bytes.
C4_Space1384 ==
    \A h \in Handles : ledger[h].exists => ledger[h].space = 1384

\* C4, amended: the storage of every created record is exactly 1376 bytes
\* (8 + 32 + 8 + 4 + 200 + 4 + 1120), whatever the lengths of its topic and
\* content are.
C4_Space1376 ==
    \A h \in Handles : ledger[h].exists => ledger[h].space = 1376

C4_Witness ==
    \E g \in Handles, h \in Handles :
        /\ ledger[g].exists /\ ledger[h].exists
        /\ ByteLen(ledger[g].topic) # ByteLen(ledger[h].topic)
        /\ ByteLen(ledger[g].content) # ByteLen(ledger[h].content)
        /\ ledger[g].space = ledger[h].space

\* C5: no step changes a record that exists, an instruction that names its
\* address again included; and the step that creates a record sets its author
\* to the caller of that instruction and its timestamp to the clock value the
\* handler read, and its topic and content to the arguments.
C5_Immutable ==
    [][\A h \in Handles :
          /\ ledger[h].exists => ledger'[h] = ledger[h]
          /\ (~ledger[h].exists /\ ledger'[h].exists)
                => /\ h = tx.tweet
                   /\ ledger'[h].author = tx.author
                   /\ ledger'[h].timestamp = tx'.clock
                   /\ ledger'[h].topic = tx.topic
                   /\ ledger'[h].content = tx.content]_vars

C5_Witness ==
    /\ pc = "done"
    /\ tx.result = "AccountInUse"
    /\ ledger[tx.tweet].exists
    /\ ledger[tx.tweet].author # tx.author
    /\ ledger[tx.tweet].topic # tx.topic

\* C6: the validation of two inputs with the same character counts gives the
\* same result, whatever their byte lengths are, and an input of at most 50
\* and 280 characters is accepted whatever its byte length is.
C6_CharsOnly ==
    probe # <<>> =>
        /\ (/\ CharCount(probe[1].topic) = CharCount(probe[2].topic)
            /\ CharCount(probe[1].content) = CharCount(probe[2].content))
              => probe[1].result = probe[2].result
        /\ \A i \in 1..2 :
              (CharCount(probe[i].topic) <= 50 /\ CharCount(probe[i].content) <= 280)
                  => probe[i].result = "Ok"

C6_Witness ==
    /\ probe # <<>>
    /\ CharCount(probe[1].topic) = 50
    /\ CharCount(probe[2].topic) = 50
    /\ ByteLen(probe[1].topic) = 50
    /\ ByteLen(probe[2].topic) > 50
    /\ CharCount(probe[1].content) = CharCount(probe[2].content)
    /\ ByteLen(probe[1].content) # ByteLen(probe[2].content)
    /\ probe[1].result = "Ok"
    /\ probe[2].result = "Ok"

C8_NoDedup ==
    [][/\ (pc = "accounts" /\ pc' = "done" /\ Validate(tx.topic, tx.content) = "Ok")
            => /\ Cardinality({h \in Handles : ledger'[h].exists})
                    = Cardinality(Existing) + 1
               /\ ledger'[tx.tweet].exists
       /\ (pc = "idle" /\ pc' = "done") => ledger[tx'.tweet].exists]_vars

C8_Witness ==
    \E g \in Handles, h \in Handles :
        /\ g # h
        /\ ledger[g].exists /\ ledger[h].exists
        /\ ledger[g].author = ledger[h].author
        /\ ledger[g].topic = ledger[h].topic
        /\ ledger[g].content = ledger[h].content
        /\ pc = "done" /\ tx.result = "Ok" /\ tx.tweet = h

\* A record whose fields were all written by the handler.
Populated(r) ==
    /\ r.exists
    /\ r.author \in Authors
    /\ r.timestamp \in {c.ts : c \in ClockGet}
    /\ CharCount(r.topic) > 0
    /\ CharCount(r.content) > 0

\* C9: the ledger changes only in the step in which the handler returns Ok, and
\* that step adds one populated record at the tweet address and leaves every
\* other address as it was; a run of the handler that returns an error leaves
\* the ledger as it was; every record of the ledger is populated, and the
\* account of an instruction in flight is not in the ledger.
C9_AllOrNothing ==
    /\ [][/\ ledger' # ledger
               => /\ pc = "accounts" /\ pc' = "done" /\ tx'.result = "Ok"
                  /\ ~ledger[tx.tweet].exists
                  /\ Populated(ledger'[tx.tweet])
                  /\ \A h \in Handles \ {tx.tweet} : ledger'[h] = ledger[h]
          /\ (pc = "accounts" /\ pc' = "done" /\ tx'.result = "Ok")
               => ledger' # ledger]_vars
    /\ [](/\ \A h \in Handles : ledger[h].exists => Populated(ledger[h])
          /\ pc = "accounts" => ~ledger[tx.tweet].exists)

C9_Witness ==
    /\ Finished
    /\ tx.result # "Ok"
    /\ Existing # {}
    /\ ~ledger[tx.tweet].exists

\* C10: the record that a run of the handler has committed fits in its
\* storage: its topic has at most 200 = 4 * 50 bytes, its content at most
\* 1120 = 4 * 280 bytes, and its serialized size is at most the space of its
\* account, which is Tweet::LEN.
C10_Fits ==
    (Finished /\ tx.result = "Ok") =>
        LET r == ledger[tx.tweet]
        IN  /\ r.exists
            /\ ByteLen(r.topic) <= MAX_TOPIC_LENGTH_BYTES
            /\ ByteLen(r.content) <= MAX_CONTENT_LENGTH_BYTES
            /\ MAX_TOPIC_LENGTH_BYTES = 4 * MAX_TOPIC_LENGTH_CHARS
            /\ MAX_CONTENT_LENGTH_BYTES = 4 * MAX_CONTENT_LENGTH_CHARS
            /\ SerializedSize(r.topic, r.content) <= r.space
            /\ r.space = Tweet_LEN

C10_Witness ==
    /\ Finished
    /\ tx.result = "Ok"
    /\ ByteLen(ledger[tx.tweet].topic) = 200
    /\ ByteLen(ledger[tx.tweet].content) = 1120
    /\ SerializedSize(tx.topic, tx.content) = ledger[tx.tweet].space

====
